---------------------------- MODULE Spec2Model ----------------------------
(***************************************************************************)
(* A model of the puppetfile library (src/src/lib.rs): the Puppetfile /    *)
(* Module / ModuleInfo data model, the Show renderers, the Module query    *)
(* helpers (user_name_pair, version, version_url), the PuppetfileError     *)
(* conversions and the forge_version lookup.                               *)
(*                                                                         *)
(* Text is modelled as a sequence of one-character strings, so that        *)
(* splitting, slicing and formatting are computed character by character.  *)
(***************************************************************************)
EXTENDS Integers, Sequences, FiniteSets, TLC

\* ------------------------------------------------------------------ bounds

\* Longest module name, in characters, drawn from NameChars.
MaxNameLen == 3
\* Longest forge URL, in characters, drawn from UrlChars.
MaxUrlLen == 2
\* Most info items of one module.
MaxInfo == 3
\* Most statement chunks of one manifest text.
MaxStmts == 3
\* Most modules of a hand-assembled document.
MaxModules == 3

\* ------------------------------------------------------------ text helpers

\* All sequences over S of length 0..n.
BoundedSeq(S, n) == UNION { [1..k -> S] : k \in 0..n }

\* &str::contains(c) for a one-character pattern.
Contains(s, c) == \E i \in 1..Len(s) : s[i] = c

\* &str::ends_with(c) for a one-character pattern.
EndsWith(s, c) == Len(s) > 0 /\ s[Len(s)] = c

\* s[from..] with a 1-based first index.
Drop(s, from) == SubSeq(s, from, Len(s))

\* Whether lit occurs in s starting at (1-based) position i.
StartsWithAt(s, i, lit) ==
    /\ i + Len(lit) - 1 <= Len(s)
    /\ \A k \in 1..Len(lit) : s[i + k - 1] = lit[k]

\* The concatenation of a sequence of texts.
RECURSIVE Concat(_)
Concat(ss) == IF ss = <<>> THEN <<>> ELSE Head(ss) \o Concat(Tail(ss))

\* &str::split(c): the pieces between the occurrences of c, empty pieces
\* (leading, trailing, between two adjacent separators) included; a text
\* with n separators yields n + 1 pieces.
RECURSIVE SplitFrom(_, _, _, _)
SplitFrom(s, c, i, cur) ==
    IF i > Len(s) THEN <<cur>>
    ELSE IF s[i] = c THEN <<cur>> \o SplitFrom(s, c, i + 1, <<>>)
    ELSE SplitFrom(s, c, i + 1, Append(cur, s[i]))

\* A split that drops a trailing empty piece (str::split_terminator).
SplitTerminator(s, c) ==
    LET ps == SplitFrom(s, c, 1, <<>>)
    IN  IF ps[Len(ps)] = <<>> THEN SubSeq(ps, 1, Len(ps) - 1) ELSE ps

Split(s, c) == SplitFrom(s, c, 1, <<>>)

\* ---------------------------------------------------------------- options

None == [tag |-> "None"]
Some(x) == [tag |-> "Some", val |-> x]
\* A call that aborted (unwrap() on None, slice out of range).
Panic == [tag |-> "Panic"]
Ok(x) == [tag |-> "Ok", val |-> x]
Err(e) == [tag |-> "Err", err |-> e]
\* A result slot no call has filled yet.
NotRun == [tag |-> "NotRun"]

\* Iterator::next() on a sequence of pieces: (item, rest).
IterNext(it) ==
    IF it = <<>> THEN [item |-> None, rest |-> <<>>]
    ELSE [item |-> Some(Head(it)), rest |-> Tail(it)]

\* -------------------------------------------------------------- data model

\* semver::VersionReq: a comparison operator and a (partial) version.
VersionOps == { <<"=">>, <<">", "=">> }
VersionDigits == { "1", "2" }
VersionReq == [op : VersionOps, major : VersionDigits]

\* fmt::Show for VersionReq, as used by ModuleInfo's Show: "<op> <version>".
VersionReq_fmt(v) == v.op \o <<" ">> \o <<v.major>>

\* enum ModuleInfo { Version(VersionReq), Info(String, String) }
Version(v) == [tag |-> "Version", v |-> v]
Info(k, x) == [tag |-> "Info", k |-> k, x |-> x]

\* struct Module { name, info }
Module(name, info) == [name |-> name, info |-> info]

\* struct Puppetfile { forge, modules }
Puppetfile(forge, modules) == [forge |-> forge, modules |-> modules]

\* ------------------------------------------------------------------ errors

\* enum ErrorKind: the lower-level failure is kept inside the kind.
HttpError(e) == [tag |-> "HttpError", err |-> e]
IoError(e) == [tag |-> "IoError", err |-> e]
SemverError(e) == [tag |-> "SemverError", err |-> e]
JsonError(e) == [tag |-> "JsonError", err |-> e]
UrlBuilding == [tag |-> "UrlBuilding"]

\* struct PuppetfileError { kind, desc, detail }
PuppetfileError(kind, desc, detail) ==
    [kind |-> kind, desc |-> desc, detail |-> detail]

\* FromError<(ErrorKind, String)>: detail is always None.
from_error_kind_desc(kind, desc) == PuppetfileError(kind, desc, None)

from_error_http(err) == from_error_kind_desc(HttpError(err), "an HTTP error occured")
from_error_io(err) == from_error_kind_desc(IoError(err), "an IO error occured")
from_error_semver(err) ==
    from_error_kind_desc(SemverError(err), "an invalid version was given")
from_error_json(err) ==
    from_error_kind_desc(JsonError(err), "an error occured while decoding JSON")

\* Error::cause: the SemverError arm is commented out in the source, so it
\* falls to the wildcard arm with UrlBuilding.
cause(e) ==
    CASE e.kind.tag = "JsonError" -> Some(e.kind.err)
      [] e.kind.tag = "HttpError" -> Some(e.kind.err)
      [] e.kind.tag = "IoError" -> Some(e.kind.err)
      [] OTHER -> None

description(e) == e.desc

detail(e) == e.detail

\* ---------------------------------------------------- Module query helpers

\* user_name_pair with split_terminator in place of split.
user_name_pair_terminator(m) ==
    IF Contains(m.name, "/")
    THEN LET parts == SplitTerminator(m.name, "/")
             n1 == IterNext(parts)
             n2 == IterNext(n1.rest)
         IN  IF n1.item = None \/ n2.item = None THEN Panic
             ELSE Some(<<n1.item.val, n2.item.val>>)
    ELSE None

\* Module::user_name_pair: the first two pieces of name split at every '/';
\* unwrap() aborts when a piece is missing.
user_name_pair(m) ==
    IF Contains(m.name, "/")
    THEN LET parts == Split(m.name, "/")
             n1 == IterNext(parts)
             n2 == IterNext(n1.rest)
         IN  IF n1.item = None \/ n2.item = None THEN Panic
             ELSE Some(<<n1.item.val, n2.item.val>>)
    ELSE None

lit_users == <<"/","u","s","e","r","s","/">>
lit_modules == <<"/","m","o","d","u","l","e","s","/">>
lit_find_json ==
    <<"/","r","e","l","e","a","s","e","s","/","f","i","n","d",".","j","s","o","n">>

\* version_url that strips every trailing '/' of the forge URL.
RECURSIVE StripAllSlashes(_)
StripAllSlashes(u) ==
    IF EndsWith(u, "/") THEN StripAllSlashes(SubSeq(u, 1, Len(u) - 1)) ELSE u

version_url_strip_all(m, forge_url) ==
    LET pair == user_name_pair(m)
    IN  CASE pair = Panic -> Panic
          [] pair = None ->
               Err(from_error_kind_desc(UrlBuilding, "Could not build url"))
          [] OTHER ->
               Ok(StripAllSlashes(forge_url) \o lit_users \o pair.val[1]
                  \o lit_modules \o pair.val[2] \o lit_find_json)

\* version_url that answers a name without '/' with a URL for an empty owner.
version_url_no_check(m, forge_url) ==
    LET stripped_url == IF EndsWith(forge_url, "/")
                        THEN SubSeq(forge_url, 1, Len(forge_url) - 1)
                        ELSE forge_url
        pair == user_name_pair(m)
    IN  CASE pair = Panic -> Panic
          [] pair = None ->
               Ok(stripped_url \o lit_users \o lit_modules \o m.name
                  \o lit_find_json)
          [] OTHER ->
               Ok(stripped_url \o lit_users \o pair.val[1] \o lit_modules
                  \o pair.val[2] \o lit_find_json)

\* Module::version_url
version_url(m, forge_url) ==
    LET stripped_url == IF EndsWith(forge_url, "/")
                        THEN SubSeq(forge_url, 1, Len(forge_url) - 1)
                        ELSE forge_url
        pair == user_name_pair(m)
    IN  CASE pair = Panic -> Panic
          [] pair = None ->
               Err(from_error_kind_desc(UrlBuilding, "Could not build url"))
          [] OTHER ->
               Ok(stripped_url \o lit_users \o pair.val[1] \o lit_modules
                  \o pair.val[2] \o lit_find_json)

\* ModuleInfo::is_version
is_version(i) ==
    CASE i.tag = "Version" -> TRUE
      [] i.tag = "Info" -> FALSE

\* version that keeps looking and answers with the last Version entry.
RECURSIVE version_last_from(_, _)
version_last_from(info, found) ==
    IF info = <<>> THEN found
    ELSE IF Head(info).tag = "Version"
         THEN version_last_from(Tail(info), Some(Head(info).v))
         ELSE version_last_from(Tail(info), found)

version_last(m) == version_last_from(m.info, None)

\* Module::version: the loop returns at the first Version entry.
RECURSIVE version_from(_)
version_from(info) ==
    IF info = <<>> THEN None
    ELSE IF Head(info).tag = "Version" THEN Some(Head(info).v)
         ELSE version_from(Tail(info))

version(m) == version_from(m.info)

\* --------------------------------------------------------------- renderers

lit_forge_open == <<"f","o","r","g","e"," ","'">>
lit_forge_close == <<"'","\n","\n">>
lit_mod_open == <<"m","o","d"," ","'">>
lit_version_open == <<","," ","'">>
lit_info_open == <<",","\n"," "," ">>
lit_arrow == <<" ","=",">"," ","'">>

\* ModuleInfo's Show without the ':' in front of the key.
ModuleInfo_fmt_no_colon(i) ==
    CASE i.tag = "Version" -> VersionReq_fmt(i.v)
      [] i.tag = "Info" -> i.k \o lit_arrow \o i.x \o <<"'">>

\* impl fmt::Show for ModuleInfo
ModuleInfo_fmt(i) ==
    CASE i.tag = "Version" -> VersionReq_fmt(i.v)
      [] i.tag = "Info" -> <<":">> \o i.k \o lit_arrow \o i.x \o <<"'">>

\* The fold of Module's Show over info, from the text written so far.
RECURSIVE Module_fold(_, _)
Module_fold(res, info) ==
    IF info = <<>> THEN res
    ELSE LET mod_info == Head(info)
         IN  CASE mod_info.tag = "Version" ->
                    Module_fold(res \o lit_version_open
                                \o ModuleInfo_fmt(mod_info) \o <<"'">>,
                                Tail(info))
               [] mod_info.tag = "Info" ->
                    Module_fold(res \o lit_info_open
                                \o ModuleInfo_fmt(mod_info),
                                Tail(info))

\* Module's Show with the Version items moved in front of the Info items.
Module_fmt_versions_first(m) ==
    Module_fold(lit_mod_open \o m.name \o <<"'">>,
                SelectSeq(m.info, LAMBDA i : i.tag = "Version")
                \o SelectSeq(m.info, LAMBDA i : i.tag = "Info"))

\* impl fmt::Show for Module
Module_fmt(m) == Module_fold(lit_mod_open \o m.name \o <<"'">>, m.info)

\* The fold of Puppetfile's Show over modules, from the text written so far.
RECURSIVE Puppetfile_fold(_, _)
Puppetfile_fold(res, modules) ==
    IF modules = <<>> THEN res
    ELSE Puppetfile_fold(res \o <<"\n">> \o Module_fmt(Head(modules))
                         \o <<"\n">>,
                         Tail(modules))

\* Puppetfile's Show that writes each module as "{}\n\n" after the first.
RECURSIVE Puppetfile_fold_single(_, _)
Puppetfile_fold_single(res, modules) ==
    IF modules = <<>> THEN res
    ELSE Puppetfile_fold_single(
             res \o Module_fmt(Head(modules)) \o <<"\n">>
             \o (IF Tail(modules) = <<>> THEN <<>> ELSE <<"\n">>),
             Tail(modules))

Puppetfile_fmt_single_blank(p) ==
    Puppetfile_fold_single(lit_forge_open \o p.forge \o lit_forge_close,
                           p.modules)

\* impl fmt::Show for Puppetfile
Puppetfile_fmt(p) ==
    Puppetfile_fold(lit_forge_open \o p.forge \o lit_forge_close, p.modules)

\* ------------------------------------------------------------------ parser
\* puppetfile_parser: the grammar of the manifest.

ParseError(kind, what) == Err([kind |-> kind, what |-> what])

\* Whether position i lies in a comment: a '#' precedes it on its line.
InComment(s, i) ==
    \E j \in 1..i : s[j] = "#" /\ \A k \in j..i : s[k] # "\n"

\* Comments, from '#' to the end of the line, are removed first; the line
\* break stays.
StripComments(s) ==
    SelectSeq([i \in 1..Len(s) |-> IF InComment(s, i) THEN "" ELSE s[i]],
              LAMBDA c : c # "")

IsWs(c) == c \in { " ", "\t" }

\* The first position at or after i that holds no blank.
RECURSIVE SkipWs(_, _)
SkipWs(s, i) == IF i <= Len(s) /\ IsWs(s[i]) THEN SkipWs(s, i + 1) ELSE i

\* The first position at or after i that holds no blank and no line break.
RECURSIVE SkipWsNl(_, _)
SkipWsNl(s, i) ==
    IF i <= Len(s) /\ (IsWs(s[i]) \/ s[i] = "\n") THEN SkipWsNl(s, i + 1)
    ELSE i

AtLineEnd(s, i) == i > Len(s) \/ s[i] = "\n"

\* The position of the quote closing a literal whose text starts at i, or
\* 0 when the line ends first.
RECURSIVE QuoteEnd(_, _)
QuoteEnd(s, i) ==
    IF i > Len(s) \/ s[i] = "\n" THEN 0
    ELSE IF s[i] = "'" THEN i
    ELSE QuoteEnd(s, i + 1)

\* A single-quoted string literal at i.
ParseQuoted(s, i) ==
    IF i <= Len(s) /\ s[i] = "'"
    THEN LET e == QuoteEnd(s, i + 1)
         IN  IF e = 0 THEN [ok |-> FALSE, what |-> "unterminated literal"]
             ELSE [ok |-> TRUE, str |-> SubSeq(s, i + 1, e - 1),
                   next |-> e + 1]
    ELSE [ok |-> FALSE, what |-> "expected a quoted literal"]

\* The end of the symbol-like key that starts at i.
RECURSIVE KeyEnd(_, _)
KeyEnd(s, i) ==
    IF i > Len(s) \/ IsWs(s[i]) \/ s[i] \in { "\n", "=", ",", "'", ":" } THEN i
    ELSE KeyEnd(s, i + 1)

\* VersionReq::parse: an optional operator (none means "="), then a version.
parse_constraint(str) ==
    LET a == SkipWs(str, 1)
        op == IF StartsWithAt(str, a, <<">", "=">>) THEN <<">", "=">>
              ELSE <<"=">>
        b == IF StartsWithAt(str, a, <<">", "=">>) THEN a + 2
             ELSE IF StartsWithAt(str, a, <<"=">>) THEN a + 1
             ELSE a
        c == SkipWs(str, b)
    IN  IF c <= Len(str) /\ str[c] \in VersionDigits
           /\ SkipWs(str, c + 1) > Len(str)
        THEN Ok([op |-> op, major |-> str[c]])
        ELSE Err("invalid version constraint")

\* The info items of a module statement, from the position after its name
\* or after an item: ", '<constraint>'" or ", :<key> => '<value>'", where a
\* line break may follow the comma.
RECURSIVE ParseItems(_, _, _, _)
ParseItems(s, i, name, acc) ==
    LET j == SkipWs(s, i)
    IN  IF AtLineEnd(s, j) THEN [ok |-> TRUE, info |-> acc, next |-> j]
        ELSE IF s[j] # ","
        THEN [ok |-> FALSE, err |-> ParseError("SyntaxError", name)]
        ELSE LET k == SkipWsNl(s, j + 1)
             IN  IF k <= Len(s) /\ s[k] = "'"
                 THEN LET q == ParseQuoted(s, k)
                      IN  IF ~q.ok
                          THEN [ok |-> FALSE,
                                err |-> ParseError("SyntaxError", name)]
                          ELSE LET c == parse_constraint(q.str)
                               IN  IF c.tag = "Err"
                                   THEN [ok |-> FALSE,
                                         err |-> ParseError(
                                             "InvalidVersionConstraint",
                                             <<name, q.str>>)]
                                   ELSE ParseItems(s, q.next, name,
                                            Append(acc, Version(c.val)))
                 ELSE IF k <= Len(s) /\ s[k] = ":"
                 THEN LET e == KeyEnd(s, k + 1)
                          key == SubSeq(s, k + 1, e - 1)
                          a == SkipWs(s, e)
                          q == ParseQuoted(s, SkipWs(s, a + 2))
                      IN  IF key = <<>> \/ ~StartsWithAt(s, a, <<"=", ">">>)
                             \/ ~q.ok
                          THEN [ok |-> FALSE,
                                err |-> ParseError("SyntaxError", name)]
                          ELSE ParseItems(s, q.next, name,
                                   Append(acc, Info(key, q.str)))
                 ELSE [ok |-> FALSE, err |-> ParseError("SyntaxError", name)]

kw_forge == <<"f","o","r","g","e">>
kw_mod == <<"m","o","d">>

\* A keyword at i, followed by a blank or the quote of its literal.
KeywordAt(s, i, kw) ==
    /\ StartsWithAt(s, i, kw)
    /\ i + Len(kw) <= Len(s)
    /\ (IsWs(s[i + Len(kw)]) \/ s[i + Len(kw)] = "'")

\* The statements from position i on; forge is the last forge statement
\* seen so far.
RECURSIVE ParseStatements(_, _, _, _)
ParseStatements(s, i, forge, modules) ==
    LET j == SkipWsNl(s, i)
    IN  IF j > Len(s)
        THEN IF forge = None THEN ParseError("MissingForge", <<>>)
             ELSE Ok(Puppetfile(forge.val, modules))
        ELSE IF KeywordAt(s, j, kw_forge)
        THEN LET q == ParseQuoted(s, SkipWs(s, j + Len(kw_forge)))
             IN  IF q.ok /\ AtLineEnd(s, SkipWs(s, q.next))
                 THEN ParseStatements(s, q.next, Some(q.str), modules)
                 ELSE ParseError("SyntaxError", <<>>)
        ELSE IF KeywordAt(s, j, kw_mod)
        THEN LET q == ParseQuoted(s, SkipWs(s, j + Len(kw_mod)))
             IN  IF ~q.ok THEN ParseError("SyntaxError", <<>>)
                 ELSE LET items == ParseItems(s, q.next, q.str, <<>>)
                      IN  IF ~items.ok THEN items.err
                          ELSE ParseStatements(s, items.next, forge,
                                   Append(modules,
                                          Module(q.str, items.info)))
        ELSE ParseError("SyntaxError", <<>>)

puppetfile_parser_parse(contents) ==
    ParseStatements(StripComments(contents), 1, None, <<>>)

\* Puppetfile::parse
Puppetfile_parse(contents) == puppetfile_parser_parse(contents)

\* ------------------------------------------------------------------ inputs

NameChars == { "a", "/" }
ExampleNames ==
    { <<"a","/","b">>, <<"a","/","b","/","c">>, <<"p","u","p","p","e","t">>,
      <<"a","p","a","c","h","e","/","p","u","p","p","e","t">> }
Names == BoundedSeq(NameChars, MaxNameLen) \cup ExampleNames

UrlChars == { "h", "/" }
ForgeUrls == BoundedSeq(UrlChars, MaxUrlLen)

InfoItems ==
    { Version([op |-> <<"=">>, major |-> "1"]),
      Version([op |-> <<">", "=">>, major |-> "2"]),
      Info(<<"g">>, <<"u">>) }
Infos == BoundedSeq(InfoItems, MaxInfo)

Modules == { Module(n, i) : n \in Names, i \in Infos }

\* ------------------------------------------------------------------- state

VARIABLES
    module,     \* the Module the helpers are called on (&self)
    forge_url,  \* the forge URL argument
    pair,       \* what user_name_pair returned
    url,        \* what version_url returned
    ver,        \* what version returned
    shown,      \* what formatting the module with Show wrote
    pc,         \* forge_version: the statement the call is at
    fv_url,     \* forge_version: let url
    response,   \* forge_version: let response
    response_string, \* forge_version: let response_string
    version_struct,  \* forge_version: let version_struct
    fv,         \* forge_version: what the call returned
    requests,   \* forge_version: HTTP requests sent so far
    steps,      \* forge_version: the steps run so far, in order
    raised,     \* forge_version: the lower-level failure a step raised
    text,       \* the manifest text handed to Puppetfile::parse
    parsed,     \* what Puppetfile::parse returned for text
    doc,        \* the Puppetfile that is rendered
    rendered,   \* what formatting doc with Show wrote
    reparsed    \* what Puppetfile::parse returned for the rendered text

queryVars == <<pair, url, ver, shown>>
renderVars == <<text, parsed, doc, rendered, reparsed>>
forgeVars ==
    <<pc, fv_url, response, response_string, version_struct, fv, requests,
      steps, raised>>
vars == <<module, forge_url, queryVars, forgeVars, renderVars>>

QueryIdle == pair = NotRun /\ url = NotRun /\ ver = NotRun /\ shown = NotRun

RenderIdle ==
    /\ text = <<>>
    /\ parsed = NotRun
    /\ doc = NotRun
    /\ rendered = NotRun
    /\ reparsed = NotRun

ForgeIdle ==
    /\ pc = "idle"
    /\ fv_url = NotRun
    /\ response = NotRun
    /\ response_string = NotRun
    /\ version_struct = NotRun
    /\ fv = NotRun
    /\ requests = 0
    /\ steps = <<>>
    /\ raised = None

\* ------------------------------------------------- the query helpers, called

\* Each behaviour makes one call on the module drawn by QueryInit.
CallUserNamePair ==
    /\ QueryIdle
    /\ pair' = user_name_pair(module)
    /\ UNCHANGED <<module, forge_url, url, ver, shown, forgeVars, renderVars>>

CallVersionUrl ==
    /\ QueryIdle
    /\ url' = version_url(module, forge_url)
    /\ UNCHANGED <<module, forge_url, pair, ver, shown, forgeVars, renderVars>>

CallVersion ==
    /\ QueryIdle
    /\ ver' = version(module)
    /\ UNCHANGED <<module, forge_url, pair, url, shown, forgeVars, renderVars>>

\* format!("{}", module)
CallModuleFmt ==
    /\ QueryIdle
    /\ shown' = Some(Module_fmt(module))
    /\ UNCHANGED <<module, forge_url, pair, url, ver, forgeVars, renderVars>>

QueryInit ==
    /\ module \in Modules
    /\ forge_url \in ForgeUrls
    /\ QueryIdle
    /\ ForgeIdle
    /\ RenderIdle

QueryNext ==
    CallUserNamePair \/ CallVersionUrl \/ CallVersion \/ CallModuleFmt

SpecQuery == QueryInit /\ [][QueryNext]_vars

\* ------------------------------------------------------------ forge_version

\* What the collaborators of forge_version can answer.
HyperErrors == { "HttpIoError", "HttpUriError" }
IoErrors == { "EndOfFile", "ConnectionReset" }
\* A response body: JSON or not, and the "version" field when it is.
Bodies ==
    { [json |-> TRUE, version |-> <<"1", ".", "2", ".", "0">>],
      [json |-> TRUE, version |-> <<"1", ".", "x">>],
      [json |-> FALSE] }

\* json::decode into ForgeVersionResponse { version }.
json_decode(body) ==
    IF body.json THEN Ok([version |-> body.version])
    ELSE Err("DecoderParseError")

\* semver::Version::parse: major.minor.patch, each a digit.
Digits == { "0", "1", "2" }
semver_parse(s) ==
    LET parts == Split(s, ".")
    IN  IF Len(parts) = 3
           /\ \A i \in 1..3 : Len(parts[i]) = 1 /\ parts[i][1] \in Digits
        THEN Ok([major |-> parts[1][1], minor |-> parts[2][1],
                 patch |-> parts[3][1]])
        ELSE Err("IncorrectParse")

\* try!: an Err returns from forge_version at once.
Return(result) ==
    /\ fv' = result
    /\ pc' = "returned"

FvCall ==
    /\ pc = "idle"
    /\ pc' = "url"
    /\ UNCHANGED <<module, forge_url, queryVars, renderVars, fv_url, response,
                   response_string, version_struct, fv, requests, steps,
                   raised>>

\* let url = try!(self.version_url(forge_url));
FvBuildUrl ==
    /\ pc = "url"
    /\ steps' = Append(steps, "url")
    /\ LET r == version_url(module, forge_url)
       IN  CASE r.tag = "Ok" -> fv_url' = r.val /\ pc' = "send" /\ fv' = fv
             [] r.tag = "Err" -> fv_url' = fv_url /\ Return(Err(r.err))
             [] OTHER -> fv_url' = fv_url /\ Return(Panic)
    /\ UNCHANGED <<module, forge_url, queryVars, renderVars, response, response_string,
                   version_struct, requests, raised>>

\* A send that tries again after a transport error.
FvSendRetry ==
    /\ pc = "send"
    /\ requests < 3
    /\ steps' = Append(steps, "send")
    /\ requests' = requests + 1
    /\ \/ /\ response' = [url |-> fv_url]
          /\ pc' = "read"
          /\ UNCHANGED <<fv, raised>>
       \/ \E e \in HyperErrors :
            /\ raised' = Some(e)
            /\ IF requests < 1
               THEN pc' = "send" /\ fv' = fv
               ELSE Return(Err(from_error_http(e)))
            /\ UNCHANGED response
    /\ UNCHANGED <<module, forge_url, queryVars, renderVars, fv_url, response_string,
                   version_struct>>

\* let mut response = try!(Client::new().get(url[]).send());
FvSend ==
    /\ pc = "send"
    /\ steps' = Append(steps, "send")
    /\ requests' = requests + 1
    /\ \/ /\ response' = [url |-> fv_url]
          /\ pc' = "read"
          /\ UNCHANGED <<fv, raised>>
       \/ \E e \in HyperErrors :
            /\ raised' = Some(e)
            /\ Return(Err(from_error_http(e)))
            /\ UNCHANGED response
    /\ UNCHANGED <<module, forge_url, queryVars, renderVars, fv_url, response_string,
                   version_struct>>

\* let response_string = try!(response.read_to_string());
FvRead ==
    /\ pc = "read"
    /\ steps' = Append(steps, "read")
    /\ \/ \E b \in Bodies :
            /\ response_string' = b
            /\ pc' = "decode"
            /\ UNCHANGED <<fv, raised>>
       \/ \E e \in IoErrors :
            /\ raised' = Some(e)
            /\ Return(Err(from_error_io(e)))
            /\ UNCHANGED response_string
    /\ UNCHANGED <<module, forge_url, queryVars, renderVars, fv_url, response,
                   version_struct, requests>>

\* let version_struct: ForgeVersionResponse = try!(json::decode(..));
FvDecode ==
    /\ pc = "decode"
    /\ steps' = Append(steps, "decode")
    /\ LET r == json_decode(response_string)
       IN  IF r.tag = "Ok"
           THEN /\ version_struct' = r.val
                /\ pc' = "parse"
                /\ UNCHANGED <<fv, raised>>
           ELSE /\ raised' = Some(r.err)
                /\ Return(Err(from_error_json(r.err)))
                /\ UNCHANGED version_struct
    /\ UNCHANGED <<module, forge_url, queryVars, renderVars, fv_url, response,
                   response_string, requests>>

\* let version = try!(semver::Version::parse(..)); Ok(version)
FvParse ==
    /\ pc = "parse"
    /\ steps' = Append(steps, "parse")
    /\ LET r == semver_parse(version_struct.version)
       IN  IF r.tag = "Ok"
           THEN /\ Return(Ok(r.val))
                /\ UNCHANGED raised
           ELSE /\ raised' = Some(r.err)
                /\ Return(Err(from_error_semver(r.err)))
    /\ UNCHANGED <<module, forge_url, queryVars, renderVars, fv_url, response,
                   response_string, version_struct, requests>>

ForgeInit ==
    /\ module \in Modules
    /\ forge_url \in ForgeUrls
    /\ QueryIdle
    /\ ForgeIdle
    /\ RenderIdle

ForgeNext == FvCall \/ FvBuildUrl \/ FvSend \/ FvRead \/ FvDecode \/ FvParse

SpecForge == ForgeInit /\ [][ForgeNext]_vars

\* ------------------------------------------------------ parse and render

\* The pieces a manifest text is put together from: forge and mod
\* statements in several layouts, a comment, and malformed lines.
Chunks ==
    { <<"f","o","r","g","e"," ","'","h","'","\n">>,
      <<"f","o","r","g","e"," "," ","'","h","/","'"," ","\n">>,
      <<"m","o","d"," ","'","a","/","b","'","\n">>,
      <<"m","o","d"," ","'","a","'",","," ","'","1","'","\n">>,
      <<"m","o","d"," ","'","a","/","b","'",","," ","'",">","="," ","2","'",",","\n"," "," ",":","g"," ","=",">"," ","'","u","'","\n">>,
      <<"\t","m","o","d"," ","'","b","'",","," ",":","g","=",">","'","u","'",","," ","'","=","2","'","\n">>,
      <<"#"," ","c","\n">>,
      <<"m","o","d"," ","'","x","'",","," ","'","z","z","'","\n">>,
      <<"b","a","d","\n">>,
      <<"m","o","d"," ","'","a","\n">>,
      <<"f","o","r","g","e"," ","'","h","#","'","\n">> }

Texts == { Concat(cs) : cs \in BoundedSeq(Chunks, MaxStmts) }

\* Hand-assembled documents.
DocForges == { <<"h">>, <<"h", "/">> }
DocModules ==
    { Module(<<"a">>, <<>>),
      Module(<<"a","/","b">>, <<Version([op |-> <<"=">>, major |-> "1"])>>),
      Module(<<"b">>, <<Info(<<"g">>, <<"u">>)>>),
      Module(<<"a","/","b">>,
             <<Version([op |-> <<">", "=">>, major |-> "2"]),
               Info(<<"g">>, <<"u">>)>>),
      Module(<<"b">>,
             <<Info(<<"g">>, <<"u">>),
               Version([op |-> <<"=">>, major |-> "1"])>>) }
Docs ==
    { Puppetfile(f, ms) : f \in DocForges,
                          ms \in BoundedSeq(DocModules, MaxModules) }

\* let parsed = Puppetfile::parse(text)
ParseText ==
    /\ parsed = NotRun
    /\ parsed' = Puppetfile_parse(text)
    /\ doc' = IF parsed'.tag = "Ok" THEN parsed'.val ELSE doc
    /\ UNCHANGED <<module, forge_url, queryVars, forgeVars, text, rendered,
                   reparsed>>

\* let rendered = format!("{}", doc)
RenderDoc ==
    /\ doc # NotRun
    /\ rendered = NotRun
    /\ rendered' = Some(Puppetfile_fmt(doc))
    /\ UNCHANGED <<module, forge_url, queryVars, forgeVars, text, parsed,
                   doc, reparsed>>

\* let reparsed = Puppetfile::parse(rendered)
ParseRendered ==
    /\ rendered # NotRun
    /\ reparsed = NotRun
    /\ reparsed' = Puppetfile_parse(rendered.val)
    /\ UNCHANGED <<module, forge_url, queryVars, forgeVars, text, parsed,
                   doc, rendered>>

NoCall ==
    /\ module = NotRun
    /\ forge_url = NotRun
    /\ QueryIdle
    /\ ForgeIdle

\* A caller that assembles a Puppetfile and renders it.
RenderInit ==
    /\ NoCall
    /\ text = <<>>
    /\ parsed = NotRun
    /\ doc \in Docs
    /\ rendered = NotRun
    /\ reparsed = NotRun

RenderNext == RenderDoc

SpecRender == RenderInit /\ [][RenderNext]_vars

\* A caller that parses a text, renders the result and parses that again.
ParseInit ==
    /\ NoCall
    /\ text \in Texts
    /\ parsed = NotRun
    /\ doc = NotRun
    /\ rendered = NotRun
    /\ reparsed = NotRun

ParseNext == ParseText \/ RenderDoc \/ ParseRendered

SpecParse == ParseInit /\ [][ParseNext]_vars

\* ------------------------------------------------- claims: query helpers

\* The position of the first '/' of a name that has one.
FirstSlash(name) ==
    CHOOSE i \in 1..Len(name) :
        name[i] = "/" /\ \A j \in 1..(i - 1) : name[j] # "/"

SlashCount(name) == Cardinality({ i \in 1..Len(name) : name[i] = "/" })

\* C2: for every name with at least one '/', user_name_pair returns
\* Some((owner, name)) with owner the text before the first '/' and name
\* everything after the first '/', further '/' included, so that
\* owner + "/" + name is the module name again.
C2_SplitsAtFirstSlashOnly ==
    (pair # NotRun /\ Contains(module.name, "/")) =>
        LET i == FirstSlash(module.name)
        IN  /\ pair = Some(<<SubSeq(module.name, 1, i - 1),
                             Drop(module.name, i + 1)>>)
            /\ pair.val[1] \o <<"/">> \o pair.val[2] = module.name

\* user_name_pair has answered for a name with two '/'.
C2_Witness == pair # NotRun /\ module.name = <<"a","/","b","/","c">>

\* C3: user_name_pair returns None exactly when the name has no '/'; for
\* every name with a '/' (leading, trailing, or the name "/" itself) it
\* returns Some and never aborts.
C3_NoneIffNoSlash ==
    pair # NotRun =>
        /\ pair # Panic
        /\ (pair = None) <=> ~Contains(module.name, "/")
        /\ Contains(module.name, "/") => pair.tag = "Some"

\* user_name_pair has answered Some for a name that ends with '/'.
C3_Witness ==
    /\ pair.tag = "Some"
    /\ EndsWith(module.name, "/")
    /\ Len(module.name) > 1

C5_UrlBuildingError ==
    url # NotRun =>
        /\ ~Contains(module.name, "/") =>
               url = Err([kind |-> [tag |-> "UrlBuilding"],
                          desc |-> "Could not build url",
                          detail |-> [tag |-> "None"]])
        /\ (url.tag = "Err") <=> ~Contains(module.name, "/")
        /\ url.tag = "Ok" =>
               /\ Contains(module.name, "/")
               /\ user_name_pair(module).tag = "Some"

\* version_url has failed for a name without '/' and a non-empty forge URL.
C5_Witness ==
    /\ url.tag = "Err"
    /\ module.name # <<>>
    /\ forge_url # <<>>

\* C6: version() returns the constraint of the first Version entry of
\* info, whatever precedes or follows it, and None exactly when info has
\* no Version entry.
C6_FirstVersion ==
    ver # NotRun =>
        LET vs == { i \in 1..Len(module.info) : is_version(module.info[i]) }
        IN  IF vs = {} THEN ver = None
            ELSE LET first == CHOOSE i \in vs : \A j \in vs : i <= j
                 IN  ver = Some(module.info[first].v)

\* version() has answered for info with an Attribute before the first
\* Version entry and a different Version entry after it.
C6_Witness ==
    /\ ver.tag = "Some"
    /\ \E i, j, k \in 1..Len(module.info) :
         /\ i < j /\ j < k
         /\ module.info[i].tag = "Info"
         /\ module.info[j].tag = "Version"
         /\ module.info[k].tag = "Version"
         /\ module.info[k] # module.info[j]

\* ------------------------------------------------- claims: forge_version

StepOrder == <<"url", "send", "read", "decode", "parse">>

\* The ErrorKind that names a step.
KindOfStep(step) ==
    CASE step = "url" -> "UrlBuilding"
      [] step = "send" -> "HttpError"
      [] step = "read" -> "IoError"
      [] step = "decode" -> "JsonError"
      [] step = "parse" -> "SemverError"

\* C9: every PuppetfileError converted from a lower-level failure keeps
\* that failure in its kind, has a non-empty description and detail None,
\* and returns that failure from cause(); cause() is None only for
\* UrlBuilding.
C9_CausesChained ==
    fv.tag = "Err" =>
        /\ description(fv.err) # ""
        /\ detail(fv.err) = None
        /\ raised.tag = "Some" =>
               /\ fv.err.kind.err = raised.val
               /\ cause(fv.err) = Some(raised.val)
        /\ cause(fv.err) = None => fv.err.kind = UrlBuilding

\* forge_version has failed at the version-string parse.
C9_Witness == fv.tag = "Err" /\ fv.err.kind.tag = "SemverError"

\* C10: forge_version runs build URL, send, read, decode, parse in that
\* order and stops at the first step that fails, with the error kind of
\* that step; it sends at most one request, none when URL building
\* fails, and returns Ok only after all five steps.
C10_StepsInOrder ==
    /\ Len(steps) <= Len(StepOrder)
    /\ \A i \in 1..Len(steps) : steps[i] = StepOrder[i]
    /\ requests <= 1
    /\ requests = Cardinality({ i \in 1..Len(steps) : steps[i] = "send" })
    /\ fv.tag = "Err" =>
           /\ pc = "returned"
           /\ steps # <<>>
           /\ fv.err.kind.tag = KindOfStep(steps[Len(steps)])
           /\ fv.err.kind.tag = "UrlBuilding" => requests = 0
    /\ fv.tag = "Ok" => pc = "returned" /\ steps = StepOrder /\ requests = 1
    /\ pc = "returned" => fv.tag \in { "Ok", "Err" }
    /\ pc # "returned" => fv = NotRun

\* forge_version has stopped at the JSON decode, after one request.
C10_Witness ==
    /\ fv.tag = "Err"
    /\ fv.err.kind.tag = "JsonError"
    /\ requests = 1

\* --------------------------------------------- claims: render and parse

\* The line forge '<url>' with its line break.
ForgeLine(p) == <<"f","o","r","g","e"," ","'">> \o p.forge \o <<"'", "\n">>

BlankLine == <<"\n">>

\* C1: for every Puppetfile that a successful parse produced, parsing its
\* rendering succeeds and yields an equal Puppetfile: same forge, same
\* modules in the same order, each with the same info items in order.
C1_RoundTrip ==
    reparsed # NotRun =>
        /\ parsed.tag = "Ok"
        /\ reparsed.tag = "Ok"
        /\ reparsed.val.forge = parsed.val.forge
        /\ Len(reparsed.val.modules) = Len(parsed.val.modules)
        /\ \A i \in 1..Len(parsed.val.modules) :
             /\ reparsed.val.modules[i].name = parsed.val.modules[i].name
             /\ reparsed.val.modules[i].info = parsed.val.modules[i].info

\* A text that is not in the rendered layout was parsed into two or more
\* modules, one of them with a Version and an Info item, then rendered
\* and parsed again.
C1_Witness ==
    /\ reparsed.tag = "Ok"
    /\ rendered.val # text
    /\ Len(doc.modules) >= 2
    /\ \E i \in 1..Len(doc.modules) :
         /\ \E k \in 1..Len(doc.modules[i].info) :
              doc.modules[i].info[k].tag = "Version"
         /\ \E k \in 1..Len(doc.modules[i].info) :
              doc.modules[i].info[k].tag = "Info"

\* C7, as claimed: the forge line, a single blank line, then the modules
\* in order, each followed by a line break, with a single blank line
\* between consecutive modules, and nothing else.
C7_SingleBlankLineAfterForge ==
    rendered # NotRun =>
        LET n == Len(doc.modules)
        IN  rendered.val =
                ForgeLine(doc) \o BlankLine
                \o Concat([i \in 1..n |->
                       Module_fmt(doc.modules[i]) \o <<"\n">>
                       \o (IF i < n THEN BlankLine ELSE <<>>)])

\* C7, amended: the forge line, a blank line, then for each module in
\* order a blank line, the module's rendering and a line break, and
\* nothing else; two blank lines precede the first module and one blank
\* line separates consecutive modules.
C7_BlankLineBeforeEachModule ==
    rendered # NotRun =>
        LET n == Len(doc.modules)
        IN  /\ rendered.val =
                  ForgeLine(doc) \o BlankLine
                  \o Concat([i \in 1..n |->
                         BlankLine \o Module_fmt(doc.modules[i])
                         \o <<"\n">>])
            /\ \A i \in 1..n :
                 StartsWithAt(Module_fmt(doc.modules[i]), 1,
                     <<"m","o","d"," ","'">> \o doc.modules[i].name
                     \o <<"'">>)

\* A document of two or more modules, one with an Info item, was rendered.
C7_Witness ==
    /\ rendered # NotRun
    /\ reparsed = NotRun
    /\ Len(doc.modules) >= 2
    /\ \E i \in 1..Len(doc.modules) :
         \E k \in 1..Len(doc.modules[i].info) :
             doc.modules[i].info[k].tag = "Info"

\* The text one info item adds to a module's rendering.
Fragment(i) ==
    IF is_version(i)
    THEN <<",", " ", "'">> \o i.v.op \o <<" ", i.v.major, "'">>
    ELSE <<",", "\n", " ", " ", ":">> \o i.k \o <<" ", "=", ">", " ", "'">>
         \o i.x \o <<"'">>

\* C8: a Module renders as mod '<name>' followed by one fragment per info
\* item in order: a Version item inline after ", ", an Info item as a
\* comma, a line break and the two-space-indented line :<key> =>
\* '<value>'; with empty info, just mod '<name>'.
C8_ModuleFragments ==
    shown # NotRun =>
        /\ shown.val =
               <<"m","o","d"," ","'">> \o module.name \o <<"'">>
               \o Concat([i \in 1..Len(module.info) |->
                      Fragment(module.info[i])])
        /\ module.info = <<>> =>
               shown.val = <<"m","o","d"," ","'">> \o module.name \o <<"'">>

\* A module with an Info item before a Version item was rendered.
C8_Witness ==
    /\ shown # NotRun
    /\ \E i, j \in 1..Len(module.info) :
         /\ i < j
         /\ module.info[i].tag = "Info"
         /\ module.info[j].tag = "Version"

=============================================================================
